---- MODULE Spec2Model ----
(***************************************************************************)
(* Procedural starfield generator (starfield_generator/__init__.py).       *)
(*                                                                         *)
(* The module-level generator of Python's `random` is a deterministic      *)
(* state machine: seed(n) sets its state as a function of n, random()      *)
(* advances the state and returns a value of [0, 1) that is a function of  *)
(* the new state.  It is modelled by a small full-period congruential      *)
(* generator whose output random() = Raw(state) / Resolution.              *)
(*                                                                         *)
(* Reals are exact fractions: a coordinate or a scale is kept as its       *)
(* numerator over the denominator Resolution; sizes are counted in units   *)
(* of 0.0001 and radii in units of 0.1.                                    *)
(***************************************************************************)
EXTENDS Integers, Sequences, FiniteSets, TLC

\* ---------------------------------------------------------------- bounds
MaxStars == 2
MaxRadius == 2
MaxSeed == 1
MaxObjects == 3
Resolution == 4

\* ------------------------------------------------------ program constants
\* max(0.0001, props.star_size_min): the floor of the lower size bound
SizeFloor == 1
\* IntProperty star_count min=1
MinStarCount == 1
\* the defaults of star_size_min (0.02) and star_size_max (0.15)
DefaultSizeMin == 200
DefaultSizeMax == 1500

SizeValues == {DefaultSizeMin, DefaultSizeMax}

VARIABLES
    rng,         \* state of the generator of the module `random` (process-wide)
    pc,          \* position of the running call: idle, generate, loop, point, scale, link, done
    caller,      \* who entered generate_starfield: "operator" or "direct"
    props,       \* the local props of execute (DefaultProps when a direct call runs)
    settings,    \* the StarfieldSettings record of the running / last call
    i,           \* loop index of generate_starfield
    star,        \* star_object of the current iteration
    tried,       \* the candidates random_point_in_sphere drew in its current call
    collection,  \* handles of the objects linked to the target collection
    entry,       \* the collection as the running call found it (<<>> when none runs)
    placements,  \* the stars created and linked by the running / last call
    drawLog,     \* the uses of the generator made by the running / last call
    report,      \* level of the operator's self.report, "NONE" before it
    result,      \* the operator's return value, "NONE" before it
    ref          \* <<>> or one remembered finished build <<[settings, placements]>>

vars == <<rng, pc, caller, props, settings, i, star, tried, collection,
          entry, placements, drawLog, report, result, ref>>

\* ------------------------------------------------------------ the generator
Generator == [modulus |-> 16, mult |-> 5, incr |-> 11]

RngStates == 0 .. (Generator.modulus - 1)

\* random.seed(n)
SeedState(n) == n % Generator.modulus

\* one step of the generator
NextState(s) == (Generator.mult * s + Generator.incr) % Generator.modulus

\* random.random() of the state reached: Raw(s) / Resolution, in [0, 1)
Raw(s) == (s * Resolution) \div Generator.modulus

\* random.uniform(a, b) = a + (b - a) * random(), as a numerator over Resolution
Uniform(a, b, s) == a * Resolution + (b - a) * Raw(s)

\* the Vector of three random.uniform(-1.0, 1.0), drawn left to right from state s
Candidate(s) ==
    LET s1 == NextState(s)
        s2 == NextState(s1)
        s3 == NextState(s2)
    IN  [point |-> <<Uniform(-1, 1, s1), Uniform(-1, 1, s2), Uniform(-1, 1, s3)>>,
         rng |-> s3]

LengthSq(v) == v[1] * v[1] + v[2] * v[2] + v[3] * v[3]

\* the test of the cube, not of the ball: no candidate is rejected
InUnitCube(point) == \A k \in 1 .. 3 : point[k] * point[k] <= Resolution * Resolution

\* point.length < 1.0: a candidate on the sphere is rejected
InUnitBallStrict(point) == LengthSq(point) < Resolution * Resolution

\* point.length <= 1.0
InUnitBall(point) == LengthSq(point) <= Resolution * Resolution

\* point * radius
Scaled(point, radius) == <<point[1] * radius, point[2] * radius, point[3] * radius>>

Max(a, b) == IF a >= b THEN a ELSE b

\* ------------------------------------------------------------------ inputs
PropsSpace ==
    [star_count : MinStarCount .. MaxStars,
     field_radius : 1 .. MaxRadius,
     star_size_min : SizeValues,
     star_size_max : SizeValues,
     clear_existing : BOOLEAN,
     random_seed : 0 .. MaxSeed]

\* the settings generate_starfield accepts by contract
ValidSettings ==
    {s \in [star_count : 0 .. MaxStars,
            field_radius : 1 .. MaxRadius,
            star_size_min : SizeValues,
            star_size_max : SizeValues,
            clear_existing : BOOLEAN,
            random_seed : 0 .. MaxSeed] : s.star_size_min <= s.star_size_max}

\* the lower bound lowered to the upper one instead of the upper one raised
BuildSettingsShrink(p) ==
    LET star_size_max == Max(SizeFloor, p.star_size_max)
        star_size_min == IF p.star_size_min <= star_size_max
                         THEN Max(SizeFloor, p.star_size_min) ELSE star_size_max
    IN  [star_count |-> p.star_count,
         field_radius |-> p.field_radius,
         star_size_min |-> star_size_min,
         star_size_max |-> star_size_max,
         clear_existing |-> p.clear_existing,
         random_seed |-> p.random_seed]

\* execute(): the StarfieldSettings built from the scene properties
BuildSettings(p) ==
    LET star_size_min == Max(SizeFloor, p.star_size_min)
        star_size_max == Max(star_size_min, p.star_size_max)
    IN  [star_count |-> p.star_count,
         field_radius |-> p.field_radius,
         star_size_min |-> star_size_min,
         star_size_max |-> star_size_max,
         clear_existing |-> p.clear_existing,
         random_seed |-> p.random_seed]

\* the scene properties before the user edits them: the declared defaults of
\* clear_existing, random_seed and the two sizes, the least count and radius
DefaultProps ==
    [star_count |-> MinStarCount,
     field_radius |-> 1,
     star_size_min |-> DefaultSizeMin,
     star_size_max |-> DefaultSizeMax,
     clear_existing |-> TRUE,
     random_seed |-> 0]

NoStar == [id |-> 0, name |-> 0, location |-> <<0, 0, 0>>, scale |-> <<0, 0, 0>>]

Range(f) == {f[k] : k \in 1 .. Len(f)}

\* bpy.data.objects.new: the handle of a new object, the least one not in use
\* (clear_collection removes its objects from bpy.data.objects, freeing theirs)
NewObject(coll) ==
    CHOOSE n \in 0 .. Len(coll) :
        /\ n \notin Range(coll)
        /\ \A m \in 0 .. (n - 1) : m \in Range(coll)

\* the model stops accumulating objects in a collection at MaxObjects
Fits(s) == s.clear_existing \/ Len(collection) + s.star_count <= MaxObjects

\* -------------------------------------------------------------------- Init
Init ==
    /\ rng \in RngStates
    /\ pc = "idle"
    /\ caller = "direct"
    /\ props = DefaultProps
    /\ settings = BuildSettings(props)
    /\ i = 0
    /\ star = NoStar
    /\ tried = <<>>
    /\ collection = <<>>
    /\ entry = <<>>
    /\ placements = <<>>
    /\ drawLog = <<>>
    /\ report = "NONE"
    /\ result = "NONE"
    /\ ref = <<>>

\* ----------------------------------------------------------------- actions
\* STARFIELD_OT_generate.execute up to its call of generate_starfield
Execute(p) ==
    /\ pc = "idle"
    /\ Fits(BuildSettings(p))
    /\ props' = p
    /\ settings' = BuildSettings(p)
    /\ caller' = "operator"
    /\ entry' = collection
    /\ report' = "NONE"
    /\ result' = "NONE"
    /\ placements' = <<>>
    /\ drawLog' = <<>>
    /\ i' = 0
    /\ star' = NoStar
    /\ tried' = <<>>
    /\ pc' = "generate"
    /\ UNCHANGED <<rng, collection, ref>>

\* generate_starfield called with a settings record by other code
CallGenerate(s) ==
    /\ pc = "idle"
    /\ Fits(s)
    /\ settings' = s
    /\ caller' = "direct"
    /\ entry' = collection
    /\ report' = "NONE"
    /\ result' = "NONE"
    /\ placements' = <<>>
    /\ drawLog' = <<>>
    /\ i' = 0
    /\ star' = NoStar
    /\ tried' = <<>>
    /\ props' = DefaultProps
    /\ pc' = "generate"
    /\ UNCHANGED <<rng, collection, ref>>

\* generate_starfield without random.seed: the draws go on from the state found
GenerateBeginNoSeed ==
    /\ pc = "generate"
    /\ rng' = rng
    /\ drawLog' = <<[op |-> "seed", star |-> 0]>>
    /\ collection' = IF settings.clear_existing THEN <<>> ELSE collection
    /\ pc' = "loop"
    /\ UNCHANGED <<caller, props, settings, i, star, tried, entry, placements,
                   report, result, ref>>

\* generate_starfield that never clears the collection
GenerateBeginKeep ==
    /\ pc = "generate"
    /\ rng' = SeedState(settings.random_seed)
    /\ drawLog' = <<[op |-> "seed", star |-> 0]>>
    /\ collection' = collection
    /\ pc' = "loop"
    /\ UNCHANGED <<caller, props, settings, i, star, tried, entry, placements,
                   report, result, ref>>

\* generate_starfield before its loop: seed, ensure_collection, clear_collection
GenerateBegin ==
    /\ pc = "generate"
    /\ rng' = SeedState(settings.random_seed)
    /\ drawLog' = <<[op |-> "seed", star |-> 0]>>
    /\ collection' = IF settings.clear_existing THEN <<>> ELSE collection
    /\ pc' = "loop"
    /\ UNCHANGED <<caller, props, settings, i, star, tried, entry, placements,
                   report, result, ref>>

\* range(star_count + 1): one star too many
NewStarOffByOne ==
    /\ pc = "loop"
    /\ i <= settings.star_count
    /\ star' = [id |-> NewObject(collection), name |-> i,
                location |-> <<0, 0, 0>>, scale |-> <<0, 0, 0>>]
    /\ tried' = <<>>
    /\ pc' = "point"
    /\ UNCHANGED <<rng, caller, props, settings, i, collection, entry,
                   placements, drawLog, report, result, ref>>

\* for i in range(star_count): star_object = bpy.data.objects.new(...)
NewStar ==
    /\ pc = "loop"
    /\ i < settings.star_count
    /\ star' = [id |-> NewObject(collection), name |-> i,
                location |-> <<0, 0, 0>>, scale |-> <<0, 0, 0>>]
    /\ tried' = <<>>
    /\ pc' = "point"
    /\ UNCHANGED <<rng, caller, props, settings, i, collection, entry,
                   placements, drawLog, report, result, ref>>

PositionDraws == <<[op |-> "position", star |-> i], [op |-> "position", star |-> i],
                   [op |-> "position", star |-> i]>>

\* the candidate drawn once before the loop: a rejected one is tested again forever
RejectCandidateStuck ==
    /\ pc = "point"
    /\ ~InUnitBall(Candidate(rng).point)
    /\ UNCHANGED vars

\* random_point_in_sphere: a candidate of length > 1 is dropped, the loop goes on
RejectCandidate ==
    /\ pc = "point"
    /\ ~InUnitBall(Candidate(rng).point)
    /\ rng' = Candidate(rng).rng
    /\ tried' = Append(tried, Candidate(rng).point)
    /\ drawLog' = drawLog \o PositionDraws
    /\ UNCHANGED <<pc, caller, props, settings, i, star, collection, entry,
                   placements, report, result, ref>>

\* random_point_in_sphere: a candidate of length <= 1 is returned times radius
AcceptCandidate ==
    /\ pc = "point"
    /\ InUnitBall(Candidate(rng).point)
    /\ rng' = Candidate(rng).rng
    /\ tried' = Append(tried, Candidate(rng).point)
    /\ drawLog' = drawLog \o PositionDraws
    /\ star' = [star EXCEPT !.location = Scaled(Candidate(rng).point, settings.field_radius)]
    /\ pc' = "scale"
    /\ UNCHANGED <<caller, props, settings, i, collection, entry,
                   placements, report, result, ref>>

\* random.uniform(0, max): the lower bound of the size range ignored
DrawScaleFromZero ==
    /\ pc = "scale"
    /\ rng' = NextState(rng)
    /\ LET star_scale == Uniform(0, settings.star_size_max, rng')
       IN  star' = [star EXCEPT !.scale = <<star_scale, star_scale, star_scale>>]
    /\ drawLog' = Append(drawLog, [op |-> "scale", star |-> i])
    /\ pc' = "link"
    /\ UNCHANGED <<caller, props, settings, i, tried, collection, entry,
                   placements, report, result, ref>>

\* one random.uniform(min, max) per axis
DrawScalePerAxis ==
    /\ pc = "scale"
    /\ rng' = NextState(NextState(NextState(rng)))
    /\ star' = [star EXCEPT !.scale =
            <<Uniform(settings.star_size_min, settings.star_size_max, NextState(rng)),
              Uniform(settings.star_size_min, settings.star_size_max,
                      NextState(NextState(rng))),
              Uniform(settings.star_size_min, settings.star_size_max, rng')>>]
    /\ drawLog' = drawLog \o <<[op |-> "scale", star |-> i], [op |-> "scale", star |-> i],
                               [op |-> "scale", star |-> i]>>
    /\ pc' = "link"
    /\ UNCHANGED <<caller, props, settings, i, tried, collection, entry,
                   placements, report, result, ref>>

\* star_scale = random.uniform(min, max); star_object.scale = (s, s, s)
DrawScale ==
    /\ pc = "scale"
    /\ rng' = NextState(rng)
    /\ LET star_scale == Uniform(settings.star_size_min, settings.star_size_max, rng')
       IN  star' = [star EXCEPT !.scale = <<star_scale, star_scale, star_scale>>]
    /\ drawLog' = Append(drawLog, [op |-> "scale", star |-> i])
    /\ pc' = "link"
    /\ UNCHANGED <<caller, props, settings, i, tried, collection, entry,
                   placements, report, result, ref>>

\* collection.objects.link(star_object), then the next iteration
LinkStar ==
    /\ pc = "link"
    /\ collection' = Append(collection, star.id)
    /\ placements' = Append(placements, star)
    /\ i' = i + 1
    /\ pc' = "loop"
    /\ UNCHANGED <<rng, caller, props, settings, star, tried, entry,
                   drawLog, report, result, ref>>

\* the loop of generate_starfield is exhausted: the function returns
LoopExit ==
    /\ pc = "loop"
    /\ ~(i < settings.star_count)
    /\ pc' = "done"
    /\ UNCHANGED <<rng, caller, props, settings, i, star, tried, collection,
                   entry, placements, drawLog, report, result, ref>>

\* back in the caller: execute reports and returns {'FINISHED'}
Return ==
    /\ pc = "done"
    /\ report' = IF caller = "operator" THEN "INFO" ELSE report
    /\ result' = IF caller = "operator" THEN "FINISHED" ELSE result
    /\ entry' = <<>>
    /\ pc' = "idle"
    /\ UNCHANGED <<rng, caller, props, settings, i, star, tried, collection,
                   placements, drawLog, ref>>

\* other code of the process draws from the module `random`
ExternalDraw ==
    /\ pc = "idle"
    /\ rng' = NextState(rng)
    /\ UNCHANGED <<pc, caller, props, settings, i, star, tried, collection, entry,
                   placements, drawLog, report, result, ref>>

\* an observer keeps the build the operator last finished, to compare later ones
Remember ==
    /\ pc = "idle"
    /\ result = "FINISHED"
    /\ ref' = <<[settings |-> settings, placements |-> placements]>>
    /\ UNCHANGED <<rng, pc, caller, props, settings, i, star, tried, collection,
                   entry, placements, drawLog, report, result>>

Build ==
    \/ GenerateBegin
    \/ NewStar
    \/ RejectCandidate
    \/ AcceptCandidate
    \/ DrawScale
    \/ LinkStar
    \/ LoopExit
    \/ Return

Next ==
    \/ \E p \in PropsSpace : Execute(p)
    \/ \E s \in ValidSettings : CallGenerate(s)
    \/ GenerateBegin
    \/ NewStar
    \/ RejectCandidate
    \/ AcceptCandidate
    \/ DrawScale
    \/ LinkStar
    \/ LoopExit
    \/ Return
    \/ ExternalDraw

Spec == Init /\ [][Next]_vars

\* the interpreter runs a call to its end: no step of a running call waits forever
LiveSpec == Spec /\ WF_vars(Build)

\* the operator run again and again on properties that clear the collection and
\* need no correction, watched by the observer
ReplayProps ==
    {p \in PropsSpace : p.clear_existing /\ p.star_size_min <= p.star_size_max}

NextReplay ==
    \/ \E p \in ReplayProps : Execute(p)
    \/ GenerateBegin
    \/ NewStar
    \/ RejectCandidate
    \/ AcceptCandidate
    \/ DrawScale
    \/ LinkStar
    \/ LoopExit
    \/ Return
    \/ ExternalDraw
    \/ Remember

SpecReplay == Init /\ [][NextReplay]_vars

\* ------------------------------------------------------------ the claims
InCall == pc \in {"loop", "point", "scale", "link"}

Ids(pl) == [k \in 1 .. Len(pl) |-> pl[k].id]
Positions(pl) == [k \in 1 .. Len(pl) |-> pl[k].location]
Scales(pl) == [k \in 1 .. Len(pl) |-> pl[k].scale]

\* C1: a build creates and links exactly one star per index of
\* range(star_count): while the loop runs the stars linked so far are those of
\* the indices below i, and when generate_starfield returns there are exactly
\* star_count of them, named 0 .. star_count-1 in order, all distinct objects
\* of the collection (none when star_count = 0).
CountInvariant ==
    /\ InCall => Len(placements) = i /\ i <= settings.star_count
    /\ pc = "done" =>
        /\ Len(placements) = settings.star_count
        /\ \A k \in 1 .. Len(placements) : placements[k].name = k - 1
        /\ Cardinality(Range(Ids(placements))) = settings.star_count
        /\ Range(Ids(placements)) \subseteq Range(collection)

CountWitness ==
    /\ pc = "done"
    /\ settings.star_count = MaxStars
    /\ Len(placements) = MaxStars
    /\ placements[MaxStars].name = MaxStars - 1

\* C2: a finished build with the same seed, star_count, field_radius and size
\* range as a build finished earlier has the same positions and the same
\* scales, element by element, whatever was drawn from the generator between.
SameConfig(a, b) ==
    /\ a.random_seed = b.random_seed
    /\ a.star_count = b.star_count
    /\ a.field_radius = b.field_radius
    /\ a.star_size_min = b.star_size_min
    /\ a.star_size_max = b.star_size_max

Determinism ==
    (pc = "done" /\ ref # <<>> /\ SameConfig(ref[1].settings, settings)) =>
        /\ Positions(placements) = Positions(ref[1].placements)
        /\ Scales(placements) = Scales(ref[1].placements)

DeterminismWitness ==
    /\ pc = "done"
    /\ ref # <<>>
    /\ SameConfig(ref[1].settings, settings)
    /\ settings.star_count = MaxStars
    /\ Len(drawLog) > 1 + 4 * MaxStars
    /\ Positions(placements) = Positions(ref[1].placements)

\* C3: every position a build assigns lies in the ball of the configured
\* radius: |location| <= field_radius, for the star in hand and every star linked.
InField(location) ==
    LengthSq(location) <=
        (Resolution * settings.field_radius) * (Resolution * settings.field_radius)

Containment ==
    /\ pc \in {"scale", "link"} => InField(star.location)
    /\ \A k \in 1 .. Len(placements) : InField(placements[k].location)

ContainmentWitness ==
    /\ pc = "done"
    /\ settings.field_radius = MaxRadius
    /\ \E k \in 1 .. Len(placements) :
        LengthSq(placements[k].location) =
            (Resolution * MaxRadius) * (Resolution * MaxRadius)

\* C4: every scale a build assigns lies in [star_size_min, star_size_max] of
\* the settings and is the same on the three axes.
GoodScale(scale) ==
    /\ scale[1] = scale[2]
    /\ scale[2] = scale[3]
    /\ settings.star_size_min * Resolution <= scale[1]
    /\ scale[1] <= settings.star_size_max * Resolution

SizeBounds ==
    /\ pc = "link" => GoodScale(star.scale)
    /\ \A k \in 1 .. Len(placements) : GoodScale(placements[k].scale)

SizeBoundsWitness ==
    /\ pc = "done"
    /\ \E k \in 1 .. Len(placements) :
        /\ settings.star_size_min * Resolution < placements[k].scale[1]
        /\ placements[k].scale[1] < settings.star_size_max * Resolution

\* C5: the settings the operator builds have star_size_min <= star_size_max;
\* when the supplied minimum exceeds the supplied maximum the lower bound is
\* kept and the upper bound raised to it, the settings stay so for the whole
\* run, every scale equals the minimum, and the operator reports no error and
\* returns FINISHED.
ClampPolicy ==
    /\ settings.star_size_min <= settings.star_size_max
    /\ report \in {"NONE", "INFO"}
    /\ caller = "operator" =>
        /\ settings.star_size_min = props.star_size_min
        /\ settings.star_size_max >= props.star_size_max
        /\ props.star_size_min > props.star_size_max =>
            /\ settings.star_size_max = props.star_size_min
            /\ \A k \in 1 .. Len(placements) :
                placements[k].scale =
                    <<props.star_size_min * Resolution, props.star_size_min * Resolution,
                      props.star_size_min * Resolution>>
        /\ pc = "idle" => result = "FINISHED" /\ report = "INFO"

ClampWitness ==
    /\ caller = "operator"
    /\ props.star_size_min > props.star_size_max
    /\ pc = "idle"
    /\ result = "FINISHED"
    /\ Len(placements) = MaxStars

\* C6: when generate_starfield returns, with clear_existing the collection holds
\* exactly the star_count stars of this call; without it the collection is what
\* the call found, unchanged and in place, followed by the new stars.
ClearExisting ==
    pc = "done" =>
        /\ settings.clear_existing =>
            /\ collection = Ids(placements)
            /\ Len(collection) = settings.star_count
        /\ ~settings.clear_existing =>
            /\ collection = entry \o Ids(placements)
            /\ Range(entry) \cap Range(Ids(placements)) = {}
            /\ Len(collection) = Len(entry) + settings.star_count

ClearWitness ==
    /\ pc = "done"
    /\ settings.clear_existing
    /\ settings.star_count >= 1
    /\ Len(entry) > settings.star_count

\* C7: the location random_point_in_sphere returns is radius times the last
\* candidate drawn, unaltered; that candidate has length <= 1, every candidate
\* drawn before it in the call has length > 1, and no other candidate of the
\* cube gives the same location.
CubePoints ==
    LET axis == {Uniform(-1, 1, s) : s \in RngStates}
    IN  {<<x, y, z>> : x \in axis, y \in axis, z \in axis}

RejectionSampling ==
    pc \in {"scale", "link"} =>
        /\ tried # <<>>
        /\ InUnitBall(tried[Len(tried)])
        /\ \A k \in 1 .. (Len(tried) - 1) :
            LengthSq(tried[k]) > Resolution * Resolution
        /\ \A k \in 1 .. 3 :
            star.location[k] = tried[Len(tried)][k] * settings.field_radius
        /\ \A c \in CubePoints :
            Scaled(c, settings.field_radius) = star.location => c = tried[Len(tried)]

RejectionWitness ==
    /\ pc = "scale"
    /\ Len(tried) >= 2
    /\ settings.field_radius = MaxRadius
    /\ star.location # <<0, 0, 0>>

\* C8: every call of random_point_in_sphere returns, and every call of
\* generate_starfield returns with all star_count stars placed.
Termination ==
    /\ (pc = "point") ~> (pc = "scale")
    /\ (pc = "generate") ~> (pc = "done" /\ Len(placements) = settings.star_count)

TerminationWitness ==
    /\ pc = "done"
    /\ Len(placements) = MaxStars
    /\ \E k \in 1 .. Len(drawLog) : drawLog[k].op = "position" /\ drawLog[k].star = 0
    /\ Len(drawLog) > 1 + 4 * MaxStars

\* C9: the generator is seeded once, before any draw; then the draws run star
\* by star in increasing order, for each star its position draws (three per
\* candidate, rejected ones included) and then its one scale draw; the
\* generator has made no step but the ones logged.
RECURSIVE Advance(_, _)
Advance(s, n) == IF n = 0 THEN s ELSE Advance(NextState(s), n - 1)

DrawsOf(op, j) == {k \in 1 .. Len(drawLog) : drawLog[k].op = op /\ drawLog[k].star = j}

Rank(e) == 2 * e.star + (IF e.op = "scale" THEN 1 ELSE 0)

DrawOrder ==
    /\ pc = "generate" => drawLog = <<>>
    /\ (InCall \/ pc = "done") =>
        /\ drawLog # <<>>
        /\ rng = Advance(SeedState(settings.random_seed), Len(drawLog) - 1)
    /\ drawLog # <<>> =>
        /\ drawLog[1].op = "seed"
        /\ \A k \in 2 .. Len(drawLog) : drawLog[k].op \in {"position", "scale"}
        /\ \A k \in 2 .. (Len(drawLog) - 1) :
            /\ Rank(drawLog[k]) <= Rank(drawLog[k + 1])
            /\ drawLog[k].op = "scale" => Rank(drawLog[k]) < Rank(drawLog[k + 1])
        /\ \A j \in 0 .. (Len(placements) - 1) :
            /\ Cardinality(DrawsOf("scale", j)) = 1
            /\ Cardinality(DrawsOf("position", j)) >= 3
            /\ Cardinality(DrawsOf("position", j)) % 3 = 0
        /\ \A k \in 2 .. Len(drawLog) :
            drawLog[k].star <= Len(placements) /\ drawLog[k].star < settings.star_count

DrawOrderWitness ==
    /\ pc = "done"
    /\ settings.star_count = MaxStars
    /\ Cardinality(DrawsOf("position", 0)) > 3
    /\ drawLog[Len(drawLog)].op = "scale"

\* C10: no step of a running build changes the state of the generator of the
\* module random, which all code of the process shares.
GeneratorUntouched == [][pc # "idle" => rng' = rng]_vars
====
